---------------------------- MODULE Spec2Model ----------------------------
(***************************************************************************)
(* A model of the retrieval pipeline of lib/rag (src/unnamed/part_000) and *)
(* of the request handler src/app/api/chat/route.ts.                       *)
(*                                                                         *)
(* JSON values are tagged records: [t |-> "null"], [t |-> "num", v |-> n], *)
(* [t |-> "str", v |-> s], [t |-> "bool", v |-> b], [t |-> "arr", v |-> a  *)
(* sequence of values] and [t |-> "obj", v |-> the sequence of <<key,      *)
(* value>> pairs in Object.entries order].  JavaScript strings are TLA+    *)
(* strings and template literals are \o concatenations.                    *)
(*                                                                         *)
(* route.ts holds two revisions of the handler, one after the other; the   *)
(* model follows the later one (lines 116-220).  The earlier one (lines    *)
(* 1-110) has the same steps, a `narrative` field in place of              *)
(* projectCategory and areaOfFocus, and a retrieval limit of 6.            *)
(***************************************************************************)
EXTENDS Integers, Sequences, FiniteSets, TLC

VARIABLES
    value,      \* flattenJson: the JSON value passed in
    basePath,   \* flattenJson: the basePath argument
    flat,       \* flattenJson: the returned chunk list
    fpc,        \* flattenJson: "call" before the call, "return" after it
    op,         \* synthesis: "summarizeAnswer" or "generateArticle"
    topic,      \* synthesis: the question / topic argument
    chunks,     \* synthesis: the ranked RetrievedChunk list passed in
    locals,     \* synthesis: top, evidence, context, confidence before the call
    messages,   \* synthesis: the messages submitted to the generation provider
    calls,      \* synthesis: number of groq.chat.completions.create calls made
    completion, \* synthesis: what the provider answered the call with
    result,     \* synthesis: the returned { answer, confidence, evidence }
    spc,        \* synthesis: "call", "awaiting" (the provider), "return"
    isInitialized,  \* route.ts: the module-level flag
    upserts,        \* the index provider: number of upsert calls it has applied
    req             \* route.ts: the POST calls, each with its position and locals

flattenVars == <<value, basePath, flat, fpc>>
synthVars == <<op, topic, chunks, locals, messages, calls, completion, result, spc>>
postVars == <<isInitialized, upserts, req>>
vars == <<flattenVars, synthVars, postVars>>

(***************************************************************************)
(* Bounds of the explored inputs.                                          *)
(***************************************************************************)
MaxNodes == 5
MaxChunks == 4
NumRequests == 2

(***************************************************************************)
(* JSON values.                                                            *)
(***************************************************************************)
JNull == [t |-> "null"]
JNum(n) == [t |-> "num", v |-> n]
JStr(s) == [t |-> "str", v |-> s]
JBool(b) == [t |-> "bool", v |-> b]
JArr(items) == [t |-> "arr", v |-> items]
JObj(entries) == [t |-> "obj", v |-> entries]

Digit(d) ==
    CASE d = 0 -> "0" [] d = 1 -> "1" [] d = 2 -> "2" [] d = 3 -> "3"
      [] d = 4 -> "4" [] d = 5 -> "5" [] d = 6 -> "6" [] d = 7 -> "7"
      [] d = 8 -> "8" [] d = 9 -> "9"

\* The decimal form of a non-negative integer, as String(n) and `${n}` give it.
RECURSIVE NumToString(_)
NumToString(n) ==
    IF n < 10 THEN Digit(n) ELSE NumToString(n \div 10) \o Digit(n % 10)

\* String(value) of a string, number or boolean.
String(x) ==
    CASE x.t = "str" -> x.v
      [] x.t = "num" -> NumToString(x.v)
      [] x.t = "bool" -> IF x.v THEN "true" ELSE "false"

\* typeof x === "string" || typeof x === "number" || typeof x === "boolean"
IsPrimitive(x) == x.t \in {"str", "num", "bool"}

\* typeof x === "object" && x !== null
IsObjectOrArray(x) == x.t \in {"arr", "obj"}

\* PathOrRoot without the "root" fallback.
PathOrEmpty(bp) == bp

\* basePath || "root"
PathOrRoot(bp) == IF bp # "" THEN bp ELSE "root"

\* parts.join(sep)
RECURSIVE Join(_, _)
Join(parts, sep) ==
    IF Len(parts) = 0 THEN ""
    ELSE IF Len(parts) = 1 THEN parts[1]
    ELSE parts[1] \o sep \o Join(Tail(parts), sep)

\* value.filter(item => scalar)
PrimitiveValues(items) == SelectSeq(items, IsPrimitive)

\* The chunk of a scalar: the id is path, "-", Date.now(), "-", Math.random();
\* only its deterministic prefix is kept.
ScalarChunk(x, bp) ==
    [path |-> PathOrRoot(bp), text |-> String(x), id |-> PathOrRoot(bp) \o "-"]

\* primitiveValues.map(String).join(" | ")
CombinedText(items) ==
    Join([i \in 1..Len(PrimitiveValues(items)) |-> String(PrimitiveValues(items)[i])],
         " | ")

\* The combined chunk of a list's scalar elements, or nothing.
Combined(items, bp) ==
    IF Len(PrimitiveValues(items)) > 0
    THEN << [path |-> PathOrRoot(bp), text |-> CombinedText(items),
             id |-> PathOrRoot(bp) \o "-array-"] >>
    ELSE << >>

\* ItemPath with the "root" token put before the index of a root list.
ItemPathRooted(bp, index) ==
    (IF bp # "" THEN bp ELSE "root") \o "[" \o NumToString(index) \o "]"

\* `${basePath}[${index}]`, index being the 0-based position in the list.
ItemPath(bp, index) == bp \o "[" \o NumToString(index) \o "]"

\* basePath ? `${basePath}.${key}` : key
NextPath(bp, key) == IF bp # "" THEN bp \o "." \o key ELSE key

RECURSIVE flattenJson(_, _)
RECURSIVE FlattenItems(_, _, _)
RECURSIVE FlattenEntries(_, _, _)

\* FlattenItems with the index counted among the object/array elements only.
RECURSIVE ReindexedFrom(_, _, _)
ReindexedFrom(nested, bp, k) ==
    IF k > Len(nested) THEN << >>
    ELSE flattenJson(nested[k], bp \o "[" \o NumToString(k - 1) \o "]")
         \o ReindexedFrom(nested, bp, k + 1)
FlattenItemsReindexed(items, bp, k) ==
    ReindexedFrom(SelectSeq(items, IsObjectOrArray), bp, k)

\* value.flatMap((item, index) => ...) from the element at 1-based position k on.
FlattenItems(items, bp, k) ==
    IF k > Len(items) THEN << >>
    ELSE (IF IsObjectOrArray(items[k])
          THEN flattenJson(items[k], ItemPath(bp, k - 1))
          ELSE << >>) \o FlattenItems(items, bp, k + 1)

\* Object.entries(value).flatMap(([key, nestedValue]) => ...) from entry k on.
FlattenEntries(entries, bp, k) ==
    IF k > Len(entries) THEN << >>
    ELSE flattenJson(entries[k][2], NextPath(bp, entries[k][1]))
         \o FlattenEntries(entries, bp, k + 1)

flattenJson(x, bp) ==
    IF x.t = "null" THEN << >>
    ELSE IF IsPrimitive(x) THEN << ScalarChunk(x, bp) >>
    ELSE IF x.t = "arr" THEN Combined(x.v, bp) \o FlattenItems(x.v, bp, 1)
    ELSE FlattenEntries(x.v, bp, 1)

(***************************************************************************)
(* The JSON values explored: every value of at most MaxNodes nodes over    *)
(* the leaves and keys below.                                              *)
(***************************************************************************)
\* Collections are kept as sequences without repetition while they are built.
Leaves == << JNull, JNum(1), JNum(2), JBool(TRUE), JStr("s") >>
Keys == << "", "x" >>
BasePaths == {"", "b"}

\* Every <<h>> \o r with h in the sequence A and r in the sequence B.
Cross(A, B) ==
    LET a == Len(A)
        b == Len(B)
    IN  [i \in 1..(a * b) |-> << A[((i - 1) \div b) + 1] >> \o B[((i - 1) % b) + 1]]

\* The sequences of m values whose sizes add up to total, the first of them of
\* s nodes or more; tab[s] lists the values of s nodes.
RECURSIVE SeqsFrom(_, _, _, _)
SeqsOf(tab, total, m) == SeqsFrom(tab, total, m, 1)
SeqsFrom(tab, total, m, s) ==
    IF m = 0 THEN (IF total = 0 /\ s = 1 THEN << << >> >> ELSE << >>)
    ELSE IF s > total - m + 1 THEN << >>
    ELSE Cross(tab[s], SeqsFrom(tab, total - s, m - 1, 1))
         \o SeqsFrom(tab, total, m, s + 1)

\* The sequences of m distinct keys.
RECURSIVE KeySeqs(_)
KeySeqs(m) ==
    IF m = 0 THEN << << >> >>
    ELSE LET shorter == KeySeqs(m - 1)
             all == [i \in 1..(Len(shorter) * Len(Keys)) |->
                        shorter[((i - 1) \div Len(Keys)) + 1]
                        \o << Keys[((i - 1) % Len(Keys)) + 1] >>]
         IN  SelectSeq(all, LAMBDA ks : \A i, j \in 1..Len(ks) : i # j => ks[i] # ks[j])

\* The arrays of n nodes with m or more elements.
RECURSIVE ArraysFrom(_, _, _)
ArraysFrom(tab, n, m) ==
    IF m > n - 1 THEN << >>
    ELSE LET ss == SeqsOf(tab, n - 1, m)
         IN  [i \in 1..Len(ss) |-> JArr(ss[i])] \o ArraysFrom(tab, n, m + 1)

\* The mappings of n nodes with m or more entries.
RECURSIVE ObjectsFrom(_, _, _)
ObjectsFrom(tab, n, m) ==
    IF m > n - 1 \/ m > Len(Keys) THEN << >>
    ELSE LET ss == SeqsOf(tab, n - 1, m)
             kk == KeySeqs(m)
             k == Len(kk)
         IN  [i \in 1..(Len(ss) * k) |->
                 LET vs == ss[((i - 1) \div k) + 1]
                     ks == kk[((i - 1) % k) + 1]
                 IN  JObj([j \in 1..m |-> << ks[j], vs[j] >>])]
             \o ObjectsFrom(tab, n, m + 1)

\* The values of exactly n nodes, given those of fewer nodes.
OfSize(tab, n) ==
    IF n = 1 THEN Leaves \o << JArr(<< >>), JObj(<< >>) >>
    ELSE ArraysFrom(tab, n, 1) \o ObjectsFrom(tab, n, 1)

RECURSIVE BySize(_, _)
BySize(tab, n) ==
    IF n > MaxNodes THEN tab ELSE BySize(Append(tab, OfSize(tab, n)), n + 1)

RECURSIVE Concat(_)
Concat(ss) == IF Len(ss) = 0 THEN << >> ELSE Head(ss) \o Concat(Tail(ss))

JsonInputs == Concat(BySize(<< >>, 1))

(***************************************************************************)
(* Retrieval results and the two synthesis operations.  A score is kept in *)
(* thousandths (0.8 is 800).  A template literal is kept as the sequence   *)
(* of its literal pieces and interpolated values (parts); the string       *)
(* submitted is their concatenation (content).                             *)
(***************************************************************************)
HighScore == 800
MediumScore == 600
TopCount == 3

NoResult == [answer |-> "", confidence |-> "none", evidence |-> << >>]
NoLocals == [top |-> << >>, evidence |-> << >>, context |-> "", confidence |-> "none"]

Min(a, b) == IF a < b THEN a ELSE b

\* Top without the slice.
TopAll(cs) == cs

\* chunks.slice(0, 3)
Top(cs) == SubSeq(cs, 1, Min(TopCount, Len(cs)))

\* top.map((chunk) => chunk.path)
Evidence(top) == [i \in 1..Len(top) |-> top[i].path]

\* top.map((chunk) => `${chunk.path}: ${chunk.text}`).join("\n")
Context(top) == Join([i \in 1..Len(top) |-> top[i].path \o ": " \o top[i].text], "\n")

\* Confidence with exclusive boundaries.
ConfidenceExclusive(score) ==
    IF score > HighScore THEN "high"
    ELSE IF score > MediumScore THEN "medium"
    ELSE "low"

\* score >= 0.8 ? "high" : score >= 0.6 ? "medium" : "low"
Confidence(score) ==
    IF score >= HighScore THEN "high"
    ELSE IF score >= MediumScore THEN "medium"
    ELSE "low"

Message(role, parts) == [role |-> role, parts |-> parts, content |-> Join(parts, "")]

RefusalText == "I could not find relevant information for that question in the provided profile data. Please ask about experience, skills, projects, salary/location, or interview preparation."
AnswerErrorText == "Error generating response. Please try again."
AnswerEmptyText == "Unable to generate response."
ArticleErrorText == "Error generating article. Please try again."
ArticleEmptyText == "Unable to generate article."
NoContextText == "No specific context available."

AnswerSystemText == "You are an AI assistant helping with career/interview preparation. Answer questions based ONLY on the provided context from a professional profile. Be concise and practical.\n\nRules:\n- Only use information from the provided context\n- If information is missing, say so clearly\n- Focus on interview preparation, achievements, technical skills, and career goals\n- Be direct and actionable"

ArticleSystemText == "You are an expert article writer specializing in project narratives. Generate complete, well-structured articles based on the project information provided. Each article must include:\n\n- A clear, compelling title that captures the essence of the project\n- An engaging introduction that provides context and sets the stage\n- Multiple well-developed body paragraphs that:\n  * Describe the project's goals and objectives\n  * Explain the activities and methods used\n  * Highlight key outcomes and achievements\n  * Discuss the impact and significance\n- A thoughtful conclusion that summarizes key points and offers final insights\n\nStyle requirements:\n- Use a professional yet engaging narrative tone\n- Write clearly and make the content accessible\n- Expand on all provided details with relevant elaboration\n- Ensure logical flow and organization\n- Create a cohesive story that brings the project to life"

\* summarizeAnswer: the values computed before the provider call.
AnswerLocals(cs) ==
    [top |-> Top(cs), evidence |-> Evidence(Top(cs)), context |-> Context(Top(cs)),
     confidence |-> Confidence(Top(cs)[1].score)]

\* summarizeAnswer: the messages of the provider call.
AnswerMessages(question, cs) ==
    << Message("system", << AnswerSystemText >>),
       Message("user", << "Question: ", question, "\n\nContext from profile:\n",
                          AnswerLocals(cs).context,
                          "\n\nAnswer the question based only on the provided context:" >>) >>

\* summarizeAnswer: the result without a provider call (no chunks).
AnswerRefusal == [answer |-> RefusalText, confidence |-> "low", evidence |-> << >>]

\* generateArticle: the values computed before the provider call.
ArticleLocals(cs) ==
    [top |-> Top(cs), evidence |-> Evidence(Top(cs)),
     context |-> IF Len(cs) > 0 THEN Context(Top(cs)) ELSE NoContextText,
     confidence |-> IF Len(cs) = 0 THEN "low" ELSE Confidence(Top(cs)[1].score)]

\* generateArticle: the messages of the provider call.
ArticleMessages(t, cs) ==
    << Message("system",
               << ArticleSystemText,
                  IF Len(cs) > 0
                  THEN "\n- Use the provided context as additional reference when relevant"
                  ELSE "" >>),
       Message("user",
               IF Len(cs) > 0
               THEN << "Please write a comprehensive narrative article based on the following project information:\n\n",
                       t, "\n\nAdditional context from database:\n",
                       ArticleLocals(cs).context,
                       "\n\nGenerate a detailed, well-structured article that tells the complete story of this project." >>
               ELSE << "Please write a comprehensive narrative article based on the following project information:\n\n",
                       t,
                       "\n\nGenerate a detailed, well-structured article that tells the complete story of this project." >>) >>

(***************************************************************************)
(* The generation provider answers a call with text, with no text (empty   *)
(* or absent content), or by throwing.                                     *)
(***************************************************************************)
GeneratedText == "generated text"
NoCompletion == [kind |-> "none", content |-> ""]
Completions == { [kind |-> "content", content |-> GeneratedText],
                 [kind |-> "content", content |-> ""],
                 [kind |-> "throws", content |-> ""] }

\* AfterCompletion with the confidence computed before the call kept on failure.
AfterCompletionKeepsConfidence(loc, c, emptyText, errorText) ==
    [answer |-> IF c.kind = "throws" THEN errorText
                ELSE IF c.content # "" THEN c.content ELSE emptyText,
     confidence |-> loc.confidence, evidence |-> loc.evidence]

\* The result after the provider call: completion.choices[0]?.message?.content
\* || emptyText in the try block, the fixed error result in the catch block.
AfterCompletion(loc, c, emptyText, errorText) ==
    IF c.kind = "throws"
    THEN [answer |-> errorText, confidence |-> "low", evidence |-> loc.evidence]
    ELSE [answer |-> IF c.content # "" THEN c.content ELSE emptyText,
          confidence |-> loc.confidence, evidence |-> loc.evidence]

AnswerResult(loc, c) == AfterCompletion(loc, c, AnswerEmptyText, AnswerErrorText)

ArticleResult(loc, c) == AfterCompletion(loc, c, ArticleEmptyText, ArticleErrorText)

(***************************************************************************)
(* The ranked lists explored: every list of at most MaxChunks chunks of    *)
(* the pool, in any order and with repetition.                             *)
(***************************************************************************)
Chunk(path, text, score) ==
    [id |-> path \o "-", path |-> path, text |-> text, score |-> score]

ChunkPool == << Chunk("skills", "TypeScript", 950), Chunk("name", "Ada", 800),
                Chunk("projects[0].title", "Gala", 799), Chunk("club", "Rotaract", 600),
                Chunk("location", "Manila", 599) >>

Topics == {"Project Title: Gala"}

RECURSIVE ListsOf(_)
ListsOf(n) ==
    IF n = 0 THEN << << >> >>
    ELSE LET shorter == ListsOf(n - 1)
             p == Len(ChunkPool)
         IN  [i \in 1..(Len(shorter) * p) |->
                 shorter[((i - 1) \div p) + 1] \o << ChunkPool[((i - 1) % p) + 1] >>]

(***************************************************************************)
(* flattenJson as a call: the inputs are drawn at Init, Flatten returns.   *)
(***************************************************************************)
FlattenIdle == value = JNull /\ basePath = "" /\ flat = << >> /\ fpc = "idle"

SynthIdle ==
    /\ op = "none" /\ topic = "" /\ chunks = << >> /\ locals = NoLocals
    /\ messages = << >> /\ calls = 0 /\ completion = NoCompletion
    /\ result = NoResult /\ spc = "idle"

PostIdle == isInitialized = FALSE /\ upserts = 0 /\ req = << >>

InitFlatten ==
    /\ \E i \in 1..Len(JsonInputs) : value = JsonInputs[i]
    /\ basePath \in BasePaths
    /\ flat = << >>
    /\ fpc = "call"
    /\ SynthIdle
    /\ PostIdle

Flatten ==
    /\ fpc = "call"
    /\ flat' = flattenJson(value, basePath)
    /\ fpc' = "return"
    /\ UNCHANGED <<value, basePath, synthVars, postVars>>

NextFlatten == Flatten

SpecFlatten == InitFlatten /\ [][NextFlatten]_vars

(***************************************************************************)
(* summarizeAnswer and generateArticle as calls.  The part before the      *)
(* await runs at the call; the part after it runs when the provider        *)
(* answers.                                                                *)
(***************************************************************************)
InitSynth ==
    /\ op \in {"summarizeAnswer", "generateArticle"}
    /\ topic \in Topics
    /\ \E n \in 0..MaxChunks : \E i \in 1..Len(ListsOf(n)) : chunks = ListsOf(n)[i]
    /\ locals = NoLocals
    /\ messages = << >>
    /\ calls = 0
    /\ completion = NoCompletion
    /\ result = NoResult
    /\ spc = "call"
    /\ FlattenIdle
    /\ PostIdle

\* summarizeAnswer with no chunks: returns without calling the provider.
SummarizeAnswerRefuse ==
    /\ spc = "call" /\ op = "summarizeAnswer" /\ Len(chunks) = 0
    /\ result' = AnswerRefusal
    /\ spc' = "return"
    /\ UNCHANGED <<op, topic, chunks, locals, messages, calls, completion, flattenVars, postVars>>

\* SummarizeAnswerCall without the early return on an empty list.
SummarizeAnswerCallAlways ==
    /\ spc = "call" /\ op = "summarizeAnswer"
    /\ locals' = [top |-> Top(chunks), evidence |-> Evidence(Top(chunks)),
                  context |-> Context(Top(chunks)),
                  confidence |-> IF Len(chunks) = 0 THEN "low"
                                 ELSE Confidence(chunks[1].score)]
    /\ messages' = << Message("system", << AnswerSystemText >>),
                      Message("user", << "Question: ", topic >>) >>
    /\ calls' = calls + 1
    /\ spc' = "awaiting"
    /\ UNCHANGED <<op, topic, chunks, completion, result, flattenVars, postVars>>

\* summarizeAnswer up to the await of groq.chat.completions.create.
SummarizeAnswerCall ==
    /\ spc = "call" /\ op = "summarizeAnswer" /\ Len(chunks) # 0
    /\ locals' = AnswerLocals(chunks)
    /\ messages' = AnswerMessages(topic, chunks)
    /\ calls' = calls + 1
    /\ spc' = "awaiting"
    /\ UNCHANGED <<op, topic, chunks, completion, result, flattenVars, postVars>>

SummarizeAnswerReturn(c) ==
    /\ spc = "awaiting" /\ op = "summarizeAnswer"
    /\ completion' = c
    /\ result' = AnswerResult(locals, c)
    /\ spc' = "return"
    /\ UNCHANGED <<op, topic, chunks, locals, messages, calls, flattenVars, postVars>>

\* generateArticle up to the await of groq.chat.completions.create.
GenerateArticleCall ==
    /\ spc = "call" /\ op = "generateArticle"
    /\ locals' = ArticleLocals(chunks)
    /\ messages' = ArticleMessages(topic, chunks)
    /\ calls' = calls + 1
    /\ spc' = "awaiting"
    /\ UNCHANGED <<op, topic, chunks, completion, result, flattenVars, postVars>>

GenerateArticleReturn(c) ==
    /\ spc = "awaiting" /\ op = "generateArticle"
    /\ completion' = c
    /\ result' = ArticleResult(locals, c)
    /\ spc' = "return"
    /\ UNCHANGED <<op, topic, chunks, locals, messages, calls, flattenVars, postVars>>

NextSynth ==
    \/ SummarizeAnswerRefuse
    \/ SummarizeAnswerCall
    \/ \E c \in Completions : SummarizeAnswerReturn(c)
    \/ GenerateArticleCall
    \/ \E c \in Completions : GenerateArticleReturn(c)

SpecSynth == InitSynth /\ [][NextSynth]_vars

(***************************************************************************)
(* The index provider and the functions of lib/rag that use it.            *)
(***************************************************************************)
\* The imported data.json: a profile whose chunks are those of ChunkPool.
Data ==
    JObj(<< <<"skills", JArr(<< JStr("TypeScript") >>)>>,
            <<"name", JStr("Ada")>>,
            <<"projects", JArr(<< JObj(<< <<"title", JStr("Gala")>> >>) >>)>>,
            <<"club", JStr("Rotaract")>>,
            <<"location", JStr("Manila")>> >>)

\* chunks.map((chunk) => ({ id, data: `${path}: ${text}`, metadata: { path, text } }))
Vectors(cs) ==
    [i \in 1..Len(cs) |->
        [id |-> cs[i].id, data |-> cs[i].path \o ": " \o cs[i].text,
         metadata |-> [path |-> cs[i].path, text |-> cs[i].text]]]

\* initializeVectorStore up to the await: the vectors handed to vector.upsert.
InitializeVectors(jsonData) == Vectors(flattenJson(jsonData, ""))

\* A hit of vector.query for a stored chunk.
Hit(c) == [id |-> c.id, score |-> c.score,
           metadata |-> [path |-> c.path, text |-> c.text]]

\* What vector.query may answer with topK = limit: the limit best hits, best
\* first, of an index that holds the chunks; no hit (an index that does not
\* hold them yet); or a failure.
QueryAnswers(limit) ==
    { [kind |-> "hits",
       hits |-> [i \in 1..k |-> Hit(ChunkPool[i])]] : k \in {0, Min(limit, Len(ChunkPool))} }
    \cup { [kind |-> "throws", hits |-> << >>] }

\* retrieveRelevant after the await: the mapped hits, [] in the catch block.
RetrieveResult(answer) ==
    IF answer.kind = "throws" THEN << >>
    ELSE [i \in 1..Len(answer.hits) |->
             [id |-> answer.hits[i].id, path |-> answer.hits[i].metadata.path,
              text |-> answer.hits[i].metadata.text, score |-> answer.hits[i].score]]

(***************************************************************************)
(* The POST handler of route.ts.  A request body is unparseable text or a  *)
(* JSON value: null, a number, an array, or an object given as a function  *)
(* from the field names present to their values.  A string field is the    *)
(* sequence of its characters.                                             *)
(***************************************************************************)
RetrieveLimit == 3

FieldNames == << "projectTitle", "projectDate", "club", "projectCategory", "areaOfFocus" >>

Undefined == [t |-> "undefined"]
Chars(cs) == [t |-> "str", v |-> cs]

\* The characters String.prototype.trim removes: the ECMAScript WhiteSpace and
\* LineTerminator code points.  A character a TLA+ string cannot hold is
\* written by its code point, as in "U+00A0".
Whitespace ==
    { "\t", "\n", "U+000B", "\f", "\r", " ", "U+00A0", "U+1680",
      "U+2000", "U+2001", "U+2002", "U+2003", "U+2004", "U+2005", "U+2006",
      "U+2007", "U+2008", "U+2009", "U+200A", "U+2028", "U+2029", "U+202F",
      "U+205F", "U+3000", "U+FEFF" }

\* String.prototype.trim on a sequence of characters.
RECURSIVE TrimStart(_)
TrimStart(cs) ==
    IF Len(cs) > 0 /\ Head(cs) \in Whitespace THEN TrimStart(Tail(cs)) ELSE cs

RECURSIVE TrimEnd(_)
TrimEnd(cs) ==
    IF Len(cs) > 0 /\ cs[Len(cs)] \in Whitespace
    THEN TrimEnd(SubSeq(cs, 1, Len(cs) - 1))
    ELSE cs

Trim(cs) == TrimEnd(TrimStart(cs))

\* payload.<name>: undefined on a number, an array and an absent field.
Field(payload, name) ==
    IF payload.kind = "object" /\ name \in DOMAIN payload.fields
    THEN payload.fields[name]
    ELSE Undefined

\* payload.<name>?.trim() throws a TypeError: on a null payload (no property
\* can be read) and on a field that is neither nullish nor a string (it has
\* no trim method).
FieldThrows(payload, name) ==
    \/ payload.kind = "null"
    \/ Field(payload, name).t \notin {"undefined", "null", "str"}

\* payload.<name>?.trim() || ""
CleanField(payload, name) ==
    IF Field(payload, name).t = "str"
    THEN Join(Trim(Field(payload, name).v), "")
    ELSE ""

CleanFields(payload) ==
    [i \in 1..Len(FieldNames) |-> CleanField(payload, FieldNames[i])]

\* !projectTitle && !projectDate && !club && !projectCategory && !areaOfFocus
AllBlank(fields) == \A i \in 1..Len(fields) : fields[i] = ""

Labels == << "Project Title: ", "Date: ", "Organized by: ", "Project Category: ",
             "Area of Focus: " >>

\* The parts pushed for the fields from position k on.
RECURSIVE PromptParts(_, _)
PromptParts(fields, k) ==
    IF k > Len(fields) THEN << >>
    ELSE (IF fields[k] # "" THEN << Labels[k] \o fields[k] >> ELSE << >>)
         \o PromptParts(fields, k + 1)

\* buildPromptFromFields
buildPromptFromFields(fields) == Join(PromptParts(fields, 1), "\n\n")

Unparseable == [kind |-> "unparseable"]
NullBody == [kind |-> "null"]
NumberBody == [kind |-> "number"]
ArrayBody == [kind |-> "array"]
ObjectBody(fields) == [kind |-> "object", fields |-> fields]
Consumed == [kind |-> "consumed"]

\* The request bodies explored: one of each kind the handler tells apart, the
\* last being the one it admits (its prompt has two parts, the blank date
\* being left out).
Bodies ==
    { Unparseable, NullBody, NumberBody, ArrayBody,
      ObjectBody(<< >>),
      ObjectBody([n \in {"projectTitle"} |-> JNum(5)]),
      ObjectBody([n \in {"club"} |-> JBool(FALSE)]),
      ObjectBody([n \in {"projectTitle", "club"} |->
                    IF n = "club" THEN JNull
                    ELSE Chars(<< " ", "\t", "\f", "U+FEFF" >>)]),
      ObjectBody([n \in {"projectTitle", "projectDate", "club"} |->
                    IF n = "projectTitle"
                    THEN Chars(<< " ", "U+00A0", "G", "a", "l", "a", "\f", " " >>)
                    ELSE IF n = "projectDate" THEN Chars(<< "\n" >>)
                    ELSE Chars(<< "R", "C" >>)]) }

NoResponse == [status |-> 0]
ErrorResponse(status, text) == [status |-> status, body |-> [error |-> text]]

\* Response.json({ question, answer, evidence, matches })
ArticleResponse(prompt, res, matches) ==
    [status |-> 200,
     body |-> [question |-> prompt, answer |-> res.answer, evidence |-> res.evidence,
               matches |-> matches]]

Requests == 1..NumRequests

\* A request's record: its position, its locals, and `issued`, the provider
\* calls it has made so far, in order ("upsert", "query", "generate").
Idle ==
    [pc |-> "idle", payload |-> Consumed, prompt |-> "", sawInitialized |-> FALSE,
     issued |-> << >>, queryFailed |-> FALSE, matches |-> << >>, completion |-> NoCompletion,
     result |-> NoResult, response |-> NoResponse]

Init ==
    /\ isInitialized = FALSE
    /\ upserts = 0
    /\ req = [r \in Requests |-> Idle]
    /\ FlattenIdle
    /\ SynthIdle

\* POST is called: it runs to `await request.json()` and gives control back,
\* having read and written nothing of the module.
Post(r) ==
    /\ req[r].pc = "idle"
    /\ req' = [req EXCEPT ![r].pc = "json"]
    /\ UNCHANGED <<isInitialized, upserts, flattenVars, synthVars>>

\* BodyParsed with the flag set before the await of initializeVectorStore, not
\* after it: `isInitialized = true; await initializeVectorStore(data)`.
BodyParsedFlagFirst(r, body) ==
    /\ req[r].pc = "json"
    /\ IF body.kind = "unparseable"
       THEN /\ req' = [req EXCEPT ![r].pc = "done", ![r].payload = body,
                                  ![r].response = ErrorResponse(400, "Invalid JSON body.")]
            /\ UNCHANGED isInitialized
       ELSE IF \E i \in 1..Len(FieldNames) : FieldThrows(body, FieldNames[i])
       THEN /\ req' = [req EXCEPT ![r].pc = "threw", ![r].payload = body]
            /\ UNCHANGED isInitialized
       ELSE IF AllBlank(CleanFields(body))
       THEN /\ req' = [req EXCEPT ![r].pc = "done", ![r].payload = body,
                                  ![r].response =
                                      ErrorResponse(400, "At least one field is required.")]
            /\ UNCHANGED isInitialized
       ELSE /\ req' = [req EXCEPT ![r].pc = IF isInitialized THEN "query" ELSE "upsert",
                                  ![r].sawInitialized = isInitialized,
                                  ![r].issued =
                                      IF isInitialized THEN << "query" >> ELSE << "upsert" >>,
                                  ![r].prompt = buildPromptFromFields(CleanFields(body))]
            /\ isInitialized' = TRUE
    /\ UNCHANGED <<upserts, flattenVars, synthVars>>

\* request.json() settles, with the parsed body or a rejection, and POST runs
\* to its first await on a provider: the field clean-up, the validation,
\* buildPromptFromFields, the read of isInitialized and, according to it, the
\* call of vector.upsert (in initializeVectorStore) or of vector.query (in
\* retrieveRelevant).
BodyParsed(r, body) ==
    /\ req[r].pc = "json"
    /\ IF body.kind = "unparseable"
       THEN req' = [req EXCEPT ![r].pc = "done", ![r].payload = body,
                               ![r].response = ErrorResponse(400, "Invalid JSON body.")]
       ELSE IF \E i \in 1..Len(FieldNames) : FieldThrows(body, FieldNames[i])
       THEN req' = [req EXCEPT ![r].pc = "threw", ![r].payload = body]
       ELSE IF AllBlank(CleanFields(body))
       THEN req' = [req EXCEPT ![r].pc = "done", ![r].payload = body,
                               ![r].response =
                                   ErrorResponse(400, "At least one field is required.")]
       ELSE req' = [req EXCEPT ![r].pc = IF isInitialized THEN "query" ELSE "upsert",
                               ![r].sawInitialized = isInitialized,
                               ![r].issued =
                                   IF isInitialized THEN << "query" >> ELSE << "upsert" >>,
                               ![r].prompt = buildPromptFromFields(CleanFields(body))]
    /\ UNCHANGED <<isInitialized, upserts, flattenVars, synthVars>>

\* UpsertResolves with an ingestion that is applied once per process: a
\* second upsert of the dataset leaves the index as it is.
UpsertResolvesOnce(r) ==
    /\ req[r].pc = "upsert"
    /\ Len(InitializeVectors(Data)) > 0
    /\ upserts' = IF upserts = 0 THEN 1 ELSE upserts
    /\ req' = [req EXCEPT ![r].pc = "initialized"]
    /\ UNCHANGED <<isInitialized, flattenVars, synthVars>>

\* vector.upsert resolves: the provider has stored the vectors and
\* initializeVectorStore returns chunks.length.
UpsertResolves(r) ==
    /\ req[r].pc = "upsert"
    /\ Len(InitializeVectors(Data)) > 0
    /\ upserts' = upserts + 1
    /\ req' = [req EXCEPT ![r].pc = "initialized"]
    /\ UNCHANGED <<isInitialized, flattenVars, synthVars>>

\* UpsertRejects with the failure caught inside initializeVectorStore, as
\* retrieveRelevant catches the failure of its query: POST goes on.
UpsertRejectsSwallowed(r) ==
    /\ req[r].pc = "upsert"
    /\ req' = [req EXCEPT ![r].pc = "initialized"]
    /\ UNCHANGED <<isInitialized, upserts, flattenVars, synthVars>>

\* vector.upsert rejects: initializeVectorStore resumes at its await and its
\* promise rejects.
UpsertRejects(r) ==
    /\ req[r].pc = "upsert"
    /\ req' = [req EXCEPT ![r].pc = "rejected"]
    /\ UNCHANGED <<isInitialized, upserts, flattenVars, synthVars>>

\* POST resumes in its catch block, a turn after the rejection it awaited:
\* console.error and the 500 response.
Catch(r) ==
    /\ req[r].pc = "rejected"
    /\ req' = [req EXCEPT ![r].pc = "done",
                          ![r].response = ErrorResponse(500, "Internal server error")]
    /\ UNCHANGED <<isInitialized, upserts, flattenVars, synthVars>>

\* POST resumes after await initializeVectorStore(data): it sets the flag and
\* calls retrieveRelevant, which calls vector.query.
Initialized(r) ==
    /\ req[r].pc = "initialized"
    /\ isInitialized' = TRUE
    /\ req' = [req EXCEPT ![r].pc = "query", ![r].issued = @ \o << "query" >>]
    /\ UNCHANGED <<upserts, flattenVars, synthVars>>

\* QueryReturns with retrieveRelevant's try/catch left out: a failure of
\* vector.query reaches POST's catch block.
QueryReturnsPropagating(r, answer) ==
    /\ req[r].pc = "query"
    /\ req' = IF answer.kind = "throws"
              THEN [req EXCEPT ![r].pc = "rejected", ![r].queryFailed = TRUE]
              ELSE [req EXCEPT ![r].pc = "retrieved",
                               ![r].matches = RetrieveResult(answer)]
    /\ UNCHANGED <<isInitialized, upserts, flattenVars, synthVars>>

\* vector.query settles; retrieveRelevant resumes at its await and returns
\* the mapped hits, or [] from its catch block.
QueryReturns(r, answer) ==
    /\ req[r].pc = "query"
    /\ req' = [req EXCEPT ![r].pc = "retrieved",
                          ![r].queryFailed = (answer.kind = "throws"),
                          ![r].matches = RetrieveResult(answer)]
    /\ UNCHANGED <<isInitialized, upserts, flattenVars, synthVars>>

\* POST resumes after await retrieveRelevant(...), a turn later, and calls
\* generateArticle, which runs up to its provider call.
Generate(r) ==
    /\ req[r].pc = "retrieved"
    /\ req' = [req EXCEPT ![r].pc = "generate", ![r].issued = @ \o << "generate" >>]
    /\ UNCHANGED <<isInitialized, upserts, flattenVars, synthVars>>

\* The generation provider settles; generateArticle resumes at its await and
\* returns its result, the fixed error result from its catch block.
GenerateReturns(r, c) ==
    /\ req[r].pc = "generate"
    /\ req' = [req EXCEPT ![r].pc = "generated", ![r].completion = c,
                          ![r].result = ArticleResult(ArticleLocals(req[r].matches), c)]
    /\ UNCHANGED <<isInitialized, upserts, flattenVars, synthVars>>

\* POST resumes after await generateArticle(...), a turn later, and answers.
Respond(r) ==
    /\ req[r].pc = "generated"
    /\ req' = [req EXCEPT ![r].pc = "done",
                          ![r].response =
                              ArticleResponse(req[r].prompt, req[r].result, req[r].matches)]
    /\ UNCHANGED <<isInitialized, upserts, flattenVars, synthVars>>

Next ==
    \/ \E r \in Requests : Post(r)
    \/ \E r \in Requests : \E body \in Bodies : BodyParsed(r, body)
    \/ \E r \in Requests : UpsertResolves(r)
    \/ \E r \in Requests : UpsertRejects(r)
    \/ \E r \in Requests : Catch(r)
    \/ \E r \in Requests : Initialized(r)
    \/ \E r \in Requests : \E a \in QueryAnswers(RetrieveLimit) : QueryReturns(r, a)
    \/ \E r \in Requests : Generate(r)
    \/ \E r \in Requests : \E c \in Completions : GenerateReturns(r, c)
    \/ \E r \in Requests : Respond(r)

Spec == Init /\ [][Next]_vars

(***************************************************************************)
(* What the chunker is required to produce, stated on the structure of the *)
(* value: the addressed texts of a value, in traversal order.  An address  *)
(* is the sequence of steps from the value down to the text, a step being  *)
(* [idx |-> i] (element i of a list, from 0) or [key |-> k].               *)
(***************************************************************************)
Scalars(items) == { i \in 1..Len(items) : items[i].t \in {"str", "num", "bool"} }
Nested(items) == { i \in 1..Len(items) : items[i].t \in {"arr", "obj"} }

\* The string forms of the scalar elements from position k on, " | " between them.
RECURSIVE BarJoined(_, _)
BarJoined(items, k) ==
    IF k > Len(items) THEN ""
    ELSE IF k \notin Scalars(items) THEN BarJoined(items, k + 1)
    ELSE IF \E j \in Scalars(items) : j > k
         THEN String(items[k]) \o " | " \o BarJoined(items, k + 1)
         ELSE String(items[k])

Under(step, addressed) ==
    [i \in 1..Len(addressed) |->
        [steps |-> <<step>> \o addressed[i].steps, text |-> addressed[i].text]]

RECURSIVE Addressed(_)
RECURSIVE AddressedItems(_, _)
RECURSIVE AddressedEntries(_, _)
AddressedItems(items, k) ==
    IF k > Len(items) THEN << >>
    ELSE (IF k \in Nested(items)
          THEN Under([idx |-> k - 1], Addressed(items[k]))
          ELSE << >>) \o AddressedItems(items, k + 1)
AddressedEntries(entries, k) ==
    IF k > Len(entries) THEN << >>
    ELSE Under([key |-> entries[k][1]], Addressed(entries[k][2]))
         \o AddressedEntries(entries, k + 1)
Addressed(x) ==
    CASE x.t = "null" -> << >>
      [] x.t \in {"str", "num", "bool"} -> << [steps |-> << >>, text |-> String(x)] >>
      [] x.t = "arr" ->
            (IF Scalars(x.v) # {}
             THEN << [steps |-> << >>, text |-> BarJoined(x.v, 1)] >>
             ELSE << >>) \o AddressedItems(x.v, 1)
      [] x.t = "obj" -> AddressedEntries(x.v, 1)

\* The text of the steps after the first one: "[i]" for an element, ".k" for a key.
RECURSIVE Suffix(_)
Suffix(steps) ==
    IF Len(steps) = 0 THEN ""
    ELSE (IF "idx" \in DOMAIN Head(steps)
          THEN "[" \o NumToString(Head(steps).idx) \o "]"
          ELSE "." \o Head(steps).key) \o Suffix(Tail(steps))

PathsTexts(cs) ==
    [i \in 1..Len(cs) |-> << cs[i].path, cs[i].text >>]

RootList == fpc = "return" /\ basePath = "" /\ value.t = "arr"

\* The chunks a list at the document root has when the paths of its nested
\* elements start with prefix \o "[i]".
RootListChunks(prefix) ==
    LET a == Addressed(value)
    IN  [i \in 1..Len(a) |->
            << IF Len(a[i].steps) = 0 THEN "root"
               ELSE prefix \o "[" \o NumToString(a[i].steps[1].idx) \o "]"
                    \o Suffix(Tail(a[i].steps)),
               a[i].text >>]

\* C1 as stated: for a list at the document root the combined-scalar chunk
\* is at "root" and every chunk of the nested element at position i has a
\* path starting with "root[i]"; flattenJson([1, {"x": 2}]) is
\* ("root", "1"), ("root[1].x", "2").
C1_RootPrefixed == RootList => PathsTexts(flat) = RootListChunks("root")

\* C1 amended: for a list at the document root the combined-scalar chunk is
\* at "root" and every chunk of the nested element at position i has a path
\* starting with "[i]"; flattenJson([1, {"x": 2}]) is ("root", "1"),
\* ("[1].x", "2").
C1_RootList ==
    /\ RootList => PathsTexts(flat) = RootListChunks("")
    /\ (RootList /\ value = JArr(<< JNum(1), JObj(<< <<"x", JNum(2)>> >>) >>))
          => PathsTexts(flat) = << <<"root", "1">>, <<"[1].x", "2">> >>

C1_Witness ==
    /\ RootList
    /\ value = JArr(<< JNum(1), JObj(<< <<"x", JNum(2)>> >>) >>)
    /\ Len(flat) = 2

\* C2: with the default empty basePath, flattenJson emits no chunk for a null
\* leaf (the chunks are exactly the texts of the non-null scalars, list by
\* list) and every emitted chunk has a non-empty path.
C2_NoNullNonEmptyPath ==
    (fpc = "return" /\ basePath = "") =>
        /\ \A i \in 1..Len(flat) : flat[i].path # ""
        /\ Len(flat) = Len(Addressed(value))
        /\ \A i \in 1..Len(flat) : flat[i].text = Addressed(value)[i].text

C2_Witness ==
    /\ fpc = "return"
    /\ basePath = ""
    /\ value = JObj(<< <<"", JArr(<< JNull, JNum(1) >>)>> >>)
    /\ PathsTexts(flat) = << <<"root", "1">> >>

\* The chunks of the object/array elements from position k on, each element
\* flattened under basePath extended by its position in the whole list.
RECURSIVE ElementChunks(_, _)
ElementChunks(items, k) ==
    IF k > Len(items) THEN << >>
    ELSE (IF k \in Nested(items)
          THEN PathsTexts(flattenJson(items[k],
                              basePath \o "[" \o NumToString(k - 1) \o "]"))
          ELSE << >>) \o ElementChunks(items, k + 1)

\* C3: for a list, flattenJson returns first, if and only if the list has a
\* scalar element, one combined chunk at basePath ("root" when basePath is
\* empty) whose text is the scalar elements' string forms in their order
\* joined by " | ", and then the chunks of every object/array element in
\* element order, each flattened under basePath extended by "[i]", i being the
\* element's position in the whole list.
C3_ListLayout ==
    (fpc = "return" /\ value.t = "arr") =>
        PathsTexts(flat) =
            (IF Scalars(value.v) # {}
             THEN << << IF basePath = "" THEN "root" ELSE basePath,
                        BarJoined(value.v, 1) >> >>
             ELSE << >>) \o ElementChunks(value.v, 1)

C3_Witness ==
    /\ fpc = "return"
    /\ basePath = "b"
    /\ value = JArr(<< JNum(2), JArr(<< JStr("s") >>), JBool(TRUE) >>)
    /\ PathsTexts(flat) = << <<"b", "2 | true">>, <<"b[1]", "s">> >>

(***************************************************************************)
(* Claims about summarizeAnswer and generateArticle (SpecSynth).           *)
(***************************************************************************)
Returned == spc = "return"
Failed == completion.kind = "throws"

\* The paths of the first min(3, n) chunks of the list, in the given order.
FirstPaths(cs) ==
    [i \in 1..(IF Len(cs) < 3 THEN Len(cs) ELSE 3) |-> cs[i].path]

\* C4: for a non-empty ranked list, the confidence both operations compute
\* depends on the first chunk's score alone: >= 0.8 high, 0.6 <= score < 0.8
\* medium, < 0.6 low; it is the confidence returned unless the provider failed.
C4_ConfidenceFromTopScore ==
    (spc \in {"awaiting", "return"} /\ Len(chunks) > 0) =>
        /\ chunks[1].score >= 800 => locals.confidence = "high"
        /\ (chunks[1].score >= 600 /\ chunks[1].score < 800)
              => locals.confidence = "medium"
        /\ chunks[1].score < 600 => locals.confidence = "low"
        /\ (Returned /\ ~Failed) => result.confidence = locals.confidence

C4_Witness ==
    /\ Returned /\ ~Failed /\ op = "generateArticle"
    /\ Len(chunks) = 2 /\ chunks[1].score = 600 /\ chunks[2].score = 950
    /\ result.confidence = "medium"

\* C5: in every result of either operation, evidence is the paths of the first
\* min(3, chunks.length) chunks in the given order, and confidence is "low"
\* when the list is empty.
C5_EvidenceIsFirstThree ==
    Returned =>
        /\ result.evidence = FirstPaths(chunks)
        /\ Len(result.evidence) = (IF Len(chunks) < 3 THEN Len(chunks) ELSE 3)
        /\ Len(chunks) = 0 => result.confidence = "low"

C5_Witness ==
    /\ Returned /\ Len(chunks) = 4
    /\ chunks[1].score < chunks[2].score /\ chunks[2].score < chunks[4].score
    /\ result.evidence = << chunks[1].path, chunks[2].path, chunks[3].path >>

\* C6: summarizeAnswer with an empty list never calls the generation provider
\* and returns the fixed refusal text with confidence "low" and no evidence.
C6_EmptyListNoProviderCall ==
    (op = "summarizeAnswer" /\ Len(chunks) = 0) =>
        /\ calls = 0
        /\ messages = << >>
        /\ spc # "awaiting"
        /\ Returned =>
              result = [answer |-> RefusalText, confidence |-> "low",
                        evidence |-> << >>]

C6_Witness ==
    /\ op = "summarizeAnswer" /\ Len(chunks) = 0 /\ Returned
    /\ result.answer = RefusalText /\ calls = 0

\* C7: generateArticle with an empty list calls the generation provider exactly
\* once and the messages it submits contain the "no context available"
\* placeholder.
C7_PlaceholderSubmitted ==
    (op = "generateArticle" /\ Len(chunks) = 0 /\ spc \in {"awaiting", "return"}) =>
        /\ calls = 1
        /\ \E m \in 1..Len(messages) :
              \E k \in 1..Len(messages[m].parts) : messages[m].parts[k] = NoContextText

\* C8: when the provider call fails, either operation returns its fixed error
\* message, confidence "low" whatever the top score, and the evidence computed
\* before the call.
C8_ProviderFailureResult ==
    (Returned /\ Failed) =>
        /\ result.answer = (IF op = "summarizeAnswer"
                            THEN "Error generating response. Please try again."
                            ELSE "Error generating article. Please try again.")
        /\ result.confidence = "low"
        /\ result.evidence = locals.evidence
        /\ result.evidence = FirstPaths(chunks)

C8_Witness ==
    /\ Returned /\ Failed /\ Len(chunks) = 2 /\ chunks[1].score = 950
    /\ locals.confidence = "high" /\ result.confidence = "low"
    /\ result.evidence = << chunks[1].path, chunks[2].path >>

(***************************************************************************)
(* Claims about the POST handler (Spec).                                   *)
(***************************************************************************)
\* C9: when vector.query fails, retrieveRelevant returns the empty sequence
\* and the request goes on to generateArticle; when it completes it answers
\* 200 with a low-confidence result that has an answer and no evidence.
C9_QueryFailureDegrades ==
    \A r \in Requests :
        req[r].queryFailed =>
            /\ req[r].matches = << >>
            /\ req[r].pc \in {"retrieved", "generate", "generated", "done"}
            /\ req[r].pc = "done" =>
                  /\ req[r].response.status = 200
                  /\ req[r].result.confidence = "low"
                  /\ req[r].result.evidence = << >>
                  /\ req[r].result.answer # ""
                  /\ req[r].response.body.answer = req[r].result.answer
                  /\ req[r].response.body.evidence = << >>
                  /\ req[r].response.body.matches = << >>

C9_Witness ==
    \E r \in Requests :
        /\ req[r].queryFailed /\ req[r].pc = "done"
        /\ req[r].response.status = 200
        /\ req[r].result.confidence = "low"
        /\ req[r].completion.kind = "content"

\* C10: every request to POST resolves to a well-formed response and no
\* exception escapes the handler, whatever the body and whichever provider
\* calls fail.
C10_NoExceptionEscapes ==
    \A r \in Requests :
        /\ req[r].pc # "threw"
        /\ req[r].pc = "done" => req[r].response.status \in {200, 400, 500}

\* The requests that have been answered with the article response.
Succeeded(r) == req[r].pc = "done" /\ req[r].response.status = 200

\* The fields of a response body.
BodyFields(r) == DOMAIN req[r].response.body

\* C11: every successful response carries the four fields answer, confidence,
\* evidence and matches; answer, confidence and evidence are those of this
\* request's synthesis result and matches is the list retrieveRelevant
\* returned for this request.
C11_ResponseCarriesResult ==
    \A r \in Requests :
        Succeeded(r) =>
            /\ {"answer", "confidence", "evidence", "matches"} \subseteq BodyFields(r)
            /\ req[r].response.body.answer = req[r].result.answer
            /\ req[r].response.body.confidence = req[r].result.confidence
            /\ req[r].response.body.evidence = req[r].result.evidence
            /\ req[r].response.body.matches = req[r].matches

\* What the successful response does carry: question, answer, evidence and
\* matches, and no confidence, whatever confidence the synthesis computed.
C11_ResponseWithoutConfidence ==
    \A r \in Requests :
        Succeeded(r) =>
            /\ BodyFields(r) = {"question", "answer", "evidence", "matches"}
            /\ req[r].result.confidence \in {"high", "medium", "low"}
            /\ req[r].response.body.question = req[r].prompt
            /\ req[r].response.body.answer = req[r].result.answer
            /\ req[r].response.body.evidence = req[r].result.evidence
            /\ req[r].response.body.matches = req[r].matches

C11_Witness ==
    \E r \in Requests :
        /\ Succeeded(r)
        /\ Len(req[r].matches) = RetrieveLimit
        /\ req[r].result.confidence = "high"
        /\ req[r].completion.kind = "content"

\* The request passed the validation and reached the try block of POST.
Admitted(r) == req[r].issued # << >>

\* The request called initializeVectorStore and its upsert has resolved.
Ingested(r) ==
    /\ Admitted(r)
    /\ Head(req[r].issued) = "upsert"
    /\ req[r].pc = "initialized" \/ Len(req[r].issued) > 1

\* C12: the guard gives at-least-once ingestion.  Every admitted request that
\* read isInitialized as false calls the upsert of the whole dataset, whatever
\* the other requests are doing, and every such upsert that resolves is
\* applied: the number of upserts applied is the number of requests whose
\* ingestion completed, which is not bounded by one.
C12_AtLeastOnceIngestion ==
    /\ \A r \in Requests :
           Admitted(r) /\ ~req[r].sawInitialized => Head(req[r].issued) = "upsert"
    /\ upserts = Cardinality({ r \in Requests : Ingested(r) })

\* Two requests both read the flag as false, both upserts were applied.
C12_Witness ==
    \E r1, r2 \in Requests :
        /\ r1 # r2
        /\ ~req[r1].sawInitialized /\ Ingested(r1)
        /\ ~req[r2].sawInitialized /\ Ingested(r2)
        /\ upserts >= 2
        /\ isInitialized

\* The request's initializeVectorStore call has rejected and POST has not yet
\* resumed in its catch block.
IngestionRejected(r) == req[r].pc = "rejected"

\* The request was answered with the generic server error.
ServerError(r) ==
    /\ req[r].pc = "done"
    /\ req[r].response = ErrorResponse(500, "Internal server error")

\* This step ends the upsert of request r without the index having applied it.
UpsertFails(r) ==
    /\ req[r].pc = "upsert"
    /\ req'[r] # req[r]
    /\ upserts' = upserts

\* This step takes a request r past the validation, to the read of the flag.
Arrives(r) == req[r].pc = "json" /\ req'[r].issued # << >>

\* C13, in states: a request is answered 500 only for a failed ingestion, and
\* it has then called the upsert and nothing else, neither the query nor the
\* generation; as long as no ingestion has succeeded the flag is false.
C13_FailedRequest ==
    /\ \A r \in Requests :
           IngestionRejected(r) \/ ServerError(r) =>
               /\ req[r].issued = << "upsert" >>
               /\ ~req[r].sawInitialized
               /\ req[r].matches = << >>
               /\ req[r].completion = NoCompletion
               /\ req[r].result = NoResult
    /\ upserts = 0 => ~isInitialized

\* C13, in steps: a failing upsert rejects the request's initializeVectorStore
\* call, whose only next step is the 500 response of POST's catch block; both
\* steps leave isInitialized as it was; a request that reads the flag as false
\* calls the upsert.
C13_FailureStep ==
    \A r \in Requests :
        /\ UpsertFails(r) =>
               /\ IngestionRejected(r)'
               /\ req'[r].issued = << "upsert" >>
               /\ isInitialized' = isInitialized
        /\ IngestionRejected(r) /\ req'[r] # req[r] =>
               /\ req'[r].pc = "done"
               /\ req'[r].response = ErrorResponse(500, "Internal server error")
               /\ req'[r].issued = << "upsert" >>
               /\ isInitialized' = isInitialized
        /\ Arrives(r) /\ ~isInitialized => req'[r].pc = "upsert"

\* C13: when the upsert fails during initialization the error reaches POST,
\* which answers that request 500 without a retrieval query or a generation
\* call, and isInitialized stays false, so the next request ingests again.
C13_UpsertFailurePropagates == [](C13_FailedRequest) /\ [][C13_FailureStep]_vars

\* A request's ingestion failed, the flag is still false, and another request
\* has called the upsert again and had it applied.
C13_Witness ==
    \E r1, r2 \in Requests :
        /\ ServerError(r1)
        /\ ~req[r2].sawInitialized /\ req[r2].pc = "initialized"
        /\ ~isInitialized
        /\ upserts = 1

\* The provider calls the request has issued so far.
Issued(r) == { req[r].issued[i] : i \in 1..Len(req[r].issued) }

\* Some call of initializeVectorStore has returned to POST, which has set the
\* flag on resuming.
IngestionCompleted ==
    \E r \in Requests : Ingested(r) /\ req[r].pc # "initialized"

\* C14, in states: the flag is true only once an ingestion has completed
\* successfully; a request has issued a query only if an upsert has been
\* applied, its own when it read the flag as false; a request that read the
\* flag as true has issued no upsert.
C14_GuardState ==
    /\ isInitialized => upserts >= 1 /\ IngestionCompleted
    /\ \A r \in Requests :
           /\ "query" \in Issued(r) =>
                  /\ upserts >= 1
                  /\ isInitialized
                  /\ ~req[r].sawInitialized => Ingested(r)
           /\ req[r].sawInitialized => "upsert" \notin Issued(r)

\* C14, in steps: the flag never returns to false, and the step that issues
\* a query starts from a state where an upsert has been applied.
C14_GuardStep ==
    /\ isInitialized => isInitialized'
    /\ \A r \in Requests :
           Len(req'[r].issued) > Len(req[r].issued)
           /\ req'[r].issued[Len(req'[r].issued)] = "query" => upserts >= 1

\* C14: in every interleaving of the requests, isInitialized becomes true
\* only after an initializeVectorStore call has completed successfully and
\* never returns to false, no request issues a retrieval query before an
\* ingestion has completed successfully, and a request that reads
\* isInitialized as true performs no upsert.
C14_InitializationGuard == [](C14_GuardState) /\ [][C14_GuardStep]_vars

\* One request ingested; another read the flag as true, queried and generated
\* without an upsert, and was answered.
C14_Witness ==
    \E r1, r2 \in Requests :
        /\ ~req[r1].sawInitialized /\ Ingested(r1)
        /\ req[r2].sawInitialized
        /\ req[r2].issued = << "query", "generate" >>
        /\ Succeeded(r2)
        /\ upserts = 1

=============================================================================
